---------------------------- MODULE Spec2Model ----------------------------
(***************************************************************************)
(* Surround-view calibration generator                                     *)
(*   src/camparameters/generate_calibration.py            ("camparameters")*)
(*   src/calibrationData/GenerateCals/generate_calibration.py              *)
(*                                                         ("GenerateCals")*)
(*                                                                         *)
(* A run of either script is one straight-line process: compute the focal  *)
(* length, loop over the camera list (rotation matrix, YAML file, report), *)
(* write corner_warppts.yaml, print the completion banner, exit.           *)
(*                                                                         *)
(* Floating point.  A double is a record [k, v].  k = "fin" is a finite    *)
(* value held in fixed point; k = "nan", "inf" are the IEEE specials;      *)
(* k = "huge" is a finite double above the fixed-point range (the only one *)
(* the scripts produce is np.tan(pi/2) = 1.633e16).  Dimensionless values  *)
(* (sines, cosines, tangents, rotation entries, determinants) are held at  *)
(* UnitScale = 2^27, lengths in pixels (focal length, intrinsic entries)   *)
(* at PixelScale = 2^20.  Degrees are held as whole numbers.  Everything   *)
(* stays below 2^31.                                                       *)
(***************************************************************************)
EXTENDS Integers, Sequences, FiniteSets, TLC

UnitScale  == 2^27
PixelScale == 2^20
Limb       == 2^14

Fin(n) == [k |-> "fin", v |-> n]
NaN    == [k |-> "nan", v |-> 0]
PosInf == [k |-> "inf", v |-> 0]
Huge   == [k |-> "huge", v |-> 0]

IsFin(x) == x.k = "fin"

AbsInt(n) == IF n < 0 THEN -n ELSE n
SignInt(n) == IF n < 0 THEN -1 ELSE 1

(***************************************************************************)
(* Arithmetic of doubles at UnitScale.  An operand that is not finite is a *)
(* NaN in every place these are used (the sines and cosines of a NaN       *)
(* angle), and NaN propagates through +, -, * (NaN * 0 is NaN).            *)
(***************************************************************************)
Neg(x) == IF IsFin(x) THEN Fin(-x.v) ELSE x

Add(x, y) == IF IsFin(x) /\ IsFin(y) THEN Fin(x.v + y.v) ELSE NaN

Sub(x, y) == IF IsFin(x) /\ IsFin(y) THEN Fin(x.v - y.v) ELSE NaN

\* |a| * |b| / UnitScale, rounded down, by 14-bit limbs (no 64-bit product).
MulMag(a, b) ==
    LET a1 == a \div Limb   a0 == a % Limb
        b1 == b \div Limb   b0 == b % Limb
        mid == a1 * b0 + a0 * b1
        low == (a0 * b0) \div Limb
    IN  2 * (a1 * b1) + (mid + low) \div (Limb \div 2)

Mul(x, y) ==
    IF IsFin(x) /\ IsFin(y)
    THEN Fin(SignInt(x.v) * SignInt(y.v) * MulMag(AbsInt(x.v), AbsInt(y.v)))
    ELSE NaN

(***************************************************************************)
(* ndarray.astype(np.float32) / dtype=np.float32: a double is rounded to   *)
(* 24 significant bits, ties to even.  On a fixed-point value this is the  *)
(* same at every scale: keep the 24 leading bits of the integer.           *)
(***************************************************************************)
RECURSIVE Quantum(_, _)
Quantum(m, q) == IF m < 2^24 * q THEN q ELSE Quantum(m, 2 * q)

RoundToMultiple(m, q) ==
    LET lo == (m \div q) * q
        r  == m - lo
    IN  IF 2 * r < q THEN lo
        ELSE IF 2 * r > q THEN lo + q
        ELSE IF (lo \div q) % 2 = 0 THEN lo ELSE lo + q

ToFloat32(x) ==
    IF IsFin(x)
    THEN Fin(SignInt(x.v) * RoundToMultiple(AbsInt(x.v), Quantum(AbsInt(x.v), 1)))
    ELSE x

(***************************************************************************)
(* np.cos(np.radians(d)), np.sin(np.radians(d)) and np.tan(np.radians(d)/2)*)
(* for the angles the configurations use, rounded to UnitScale.            *)
(* cos(90 deg) is 6.1e-17 in double: 0 at this resolution.                 *)
(***************************************************************************)
CosTable ==
    (0 :> 134217728) @@ (20 :> 126123409) @@ (90 :> 0) @@
    (180 :> -134217728) @@ (270 :> 0)

SinTable ==
    (0 :> 0) @@ (20 :> 45905167) @@ (90 :> 134217728) @@
    (180 :> 0) @@ (270 :> -134217728)

CosDeg(a) == IF IsFin(a) THEN Fin(CosTable[a.v]) ELSE NaN
SinDeg(a) == IF IsFin(a) THEN Fin(SinTable[a.v]) ELSE NaN

\* np.tan(np.radians(fov) / 2): tan(0) = 0.0, tan(45 deg) = 1.0,
\* tan(60 deg) = 1.7320508, and np.tan(pi/2) = 1.633e16, finite.
TanHalfTable ==
    (0 :> Fin(0)) @@ (90 :> Fin(134217728)) @@ (120 :> Fin(232471924)) @@
    (180 :> Huge)

TanHalfDeg(fov) == TanHalfTable[fov]

(***************************************************************************)
(* 3x3 matrices, row-major, as tuples of rows.                             *)
(***************************************************************************)
Zero == Fin(0)
One  == Fin(UnitScale)

Dot3(a1, a2, a3, b1, b2, b3) == Add(Add(Mul(a1, b1), Mul(a2, b2)), Mul(a3, b3))

\* A @ B
MatMul(A, B) ==
    [r \in 1..3 |->
        [c \in 1..3 |-> Dot3(A[r][1], A[r][2], A[r][3], B[1][c], B[2][c], B[3][c])]]

\* np.linalg.det(R); the LU factorisation agrees with the cofactor expansion
\* far below the resolution of UnitScale, and both give NaN on a NaN row.
Det3(A) ==
    LET m1 == Sub(Mul(A[2][2], A[3][3]), Mul(A[2][3], A[3][2]))
        m2 == Sub(Mul(A[2][1], A[3][3]), Mul(A[2][3], A[3][1]))
        m3 == Sub(Mul(A[2][1], A[3][2]), Mul(A[2][2], A[3][1]))
    IN  Add(Sub(Mul(A[1][1], m1), Mul(A[1][2], m2)), Mul(A[1][3], m3))

MatFloat32(A) == [r \in DOMAIN A |-> [c \in DOMAIN A[r] |-> ToFloat32(A[r][c])]]

Rz(yaw) ==
    << <<CosDeg(yaw), Neg(SinDeg(yaw)), Zero>>,
       <<SinDeg(yaw), CosDeg(yaw),      Zero>>,
       <<Zero,        Zero,             One>> >>

Rx(pitch) ==
    << <<One,  Zero,          Zero>>,
       <<Zero, CosDeg(pitch), Neg(SinDeg(pitch))>>,
       <<Zero, SinDeg(pitch), CosDeg(pitch)>> >>

Ry(roll) ==
    << <<CosDeg(roll),      Zero, SinDeg(roll)>>,
       <<Zero,              One,  Zero>>,
       <<Neg(SinDeg(roll)), Zero, CosDeg(roll)>> >>

\* A reversed composition, Rx @ Ry @ Rz.
euler_reversed(yaw_deg, pitch_deg, roll_deg) ==
    MatMul(MatMul(Rx(pitch_deg), Ry(roll_deg)), Rz(yaw_deg))

\* Rz @ Ry @ Rx
euler_to_rotation_matrix(yaw_deg, pitch_deg, roll_deg) ==
    MatMul(MatMul(Rz(yaw_deg), Ry(roll_deg)), Rx(pitch_deg))

(***************************************************************************)
(* image_width / (2 * np.tan(fov_rad / 2)), in pixels at PixelScale.       *)
(* LongDiv(r, d, n, q) is binary long division: the quotient of            *)
(* (q*d + r) * 2^n by d, for 0 <= r < d < 2^30.                            *)
(***************************************************************************)
RECURSIVE LongDiv(_, _, _, _)
LongDiv(r, d, n, q) ==
    IF n = 0 THEN q
    ELSE IF 2 * r >= d THEN LongDiv(2 * r - d, d, n - 1, 2 * q + 1)
         ELSE LongDiv(2 * r, d, n - 1, 2 * q)

\* width / den for a Python int width > 0 and an np.float64 den >= 0: a zero
\* divisor gives inf (numpy warns, it does not raise); a divisor of 1.6e16
\* gives 3.9e-14, which is 0 at PixelScale.
DivPixels(width, den) ==
    CASE den.k = "huge" -> Fin(0)
      [] den.k = "fin" /\ den.v = 0 -> PosInf
      [] den.k = "fin" /\ den.v > 0 ->
            Fin(LongDiv(width % den.v, den.v, 47, width \div den.v))
      [] OTHER -> NaN

Twice(x) == IF IsFin(x) THEN Fin(2 * x.v) ELSE x

\* The divisor without its factor 2.
focal_no_factor(fov_deg, image_width) ==
    DivPixels(image_width, TanHalfDeg(fov_deg))

fov_to_focal_length(fov_deg, image_width) ==
    DivPixels(image_width, Twice(TanHalfDeg(fov_deg)))

\* Python's int / 2 as a length in pixels.
HalfPixels(n) == Fin((n * PixelScale) \div 2)

PixelOne == Fin(PixelScale)

\* The principal point transposed.
IntrinsicSwapped(focal_length, cx, cy) ==
    MatFloat32(<< <<focal_length, Zero, cy>>,
                  <<Zero, focal_length, cx>>,
                  <<Zero, Zero, PixelOne>> >>)

\* K = np.array([[f, 0, cx], [0, f, cy], [0, 0, 1]], dtype=np.float32)
IntrinsicMatrix(focal_length, cx, cy) ==
    MatFloat32(<< <<focal_length, Zero, cx>>,
                  <<Zero, focal_length, cy>>,
                  <<Zero, Zero, PixelOne>> >>)

\* np.zeros((3, 1), dtype=np.float64)
ZeroTranslation == << <<Zero>>, <<Zero>>, <<Zero>> >>

(***************************************************************************)
(* Configuration.  The scripts hold it as literals to be edited; the model *)
(* takes the field of view and the camera list as inputs of a run.         *)
(***************************************************************************)
image_width   == 1280
image_height  == 800
pitch_down    == 20
output_width  == 1920
output_height == 1080

MaxIdx  == 4    \* largest camera index a configuration uses
MaxRuns == 2    \* runs of the generator in sequence on one directory

\* A Python value passed as a port: an int, or a str that is no number.
PyInt(n) == [py |-> "int", n |-> n, s |-> ""]
PyStr(t) == [py |-> "str", n |-> 0, s |-> t]

Cam(idx, name, yaw, ip, port) ==
    [idx |-> idx, name |-> name, yaw |-> yaw, pitch |-> Fin(pitch_down),
     roll |-> Fin(0), ip |-> ip, port |-> port]

DefaultCameras ==
    << Cam(0, "Front", Fin(0),   "192.168.45.10", PyInt(5020)),
       Cam(1, "Left",  Fin(90),  "192.168.45.11", PyInt(5021)),
       Cam(2, "Rear",  Fin(180), "192.168.45.12", PyInt(5022)),
       Cam(3, "Right", Fin(270), "192.168.45.13", PyInt(5023)) >>

FovValues == DOMAIN TanHalfTable
YawValues == {Fin(0), Fin(90), Fin(180), Fin(270), NaN}

\* The rig of the scripts, its prefixes, and the rig with one field of one
\* camera edited: another index, another yaw (NaN included), a port that
\* is not a number.
CameraLists ==
    {SubSeq(DefaultCameras, 1, n) : n \in 1..Len(DefaultCameras)}
    \cup {[DefaultCameras EXCEPT ![p].idx = j] :
              p \in DOMAIN DefaultCameras, j \in 0..MaxIdx}
    \cup {[DefaultCameras EXCEPT ![p].yaw = y] :
              p \in DOMAIN DefaultCameras, y \in YawValues}
    \cup {[DefaultCameras EXCEPT ![p].port = PyStr("rtsp")] :
              p \in DOMAIN DefaultCameras}

Scripts == {"camparameters", "GenerateCals"}

(***************************************************************************)
(* Files.  f"Camparam{idx}.yaml" is held as its three pieces.              *)
(***************************************************************************)
DecimalString ==
    (0 :> "0") @@ (1 :> "1") @@ (2 :> "2") @@ (3 :> "3") @@ (4 :> "4") @@
    (5 :> "5") @@ (6 :> "6") @@ (7 :> "7") @@ (8 :> "8") @@ (9 :> "9")

CamFileName(idx) == <<"Camparam", DecimalString[idx], ".yaml">>
CropFileName     == <<"corner_warppts", "", ".yaml">>

Stale == << <<"FocalLength", Fin(1)>>, <<"Leftover", Fin(2)>> >>

EmptyDir == [f \in {} |-> <<>>]
StaleDir == (CamFileName(0) :> Stale) @@ (CamFileName(9) :> Stale)
            @@ (CropFileName :> Stale)

InitialDirs == {EmptyDir, StaleDir}

\* cv2.FileStorage(name, FILE_STORAGE_WRITE) in append mode instead.
OpenAppend(dir, name) ==
    IF name \in DOMAIN dir THEN dir ELSE (name :> <<>>) @@ dir

\* cv2.FileStorage(name, cv2.FILE_STORAGE_WRITE): creates or truncates.
OpenWrite(dir, name) ==
    (name :> <<>>) @@ [f \in DOMAIN dir \ {name} |-> dir[f]]

\* fs.write(key, value) on each pair of `fields`, in order.
WriteAll(dir, name, fields) == [dir EXCEPT ![name] = @ \o fields]

Event(op, file, key) == [op |-> op, file |-> file, key |-> key]

WriteEvents(file, fields) ==
    [n \in 1..Len(fields) |-> Event("write", file, fields[n][1])]

NoFocal  == [k |-> "unset", v |-> 0]
NoMatrix == <<>>

VARIABLES
    script,          \* which of the two generators runs
    horizontal_fov,  \* degrees
    cameras,         \* the camera list
    run,             \* 1 for the first run on the directory, 2 for the next
    pc,              \* position of the run
    focal_length,
    i,               \* position in `cameras` of the camera in progress
    R,               \* rotation matrix of the camera in progress
    fs,              \* names of the files whose FileStorage is open
    files,           \* the output directory: name -> fields written
    log,             \* focal-length computations and file operations so far
    report,          \* what the run printed per camera after saving
    error,           \* the exception that ended the run, "" for none
    firstRun         \* the directory as the first run left it

vars == <<script, horizontal_fov, cameras, run, pc, focal_length, i, R, fs,
          files, log, report, error, firstRun>>

config == <<script, horizontal_fov, cameras>>

Init ==
    /\ script \in Scripts
    /\ horizontal_fov \in FovValues
    /\ cameras \in CameraLists
    /\ files \in InitialDirs
    /\ run = 1
    /\ pc = "start"
    /\ focal_length = NoFocal
    /\ i = 1
    /\ R = NoMatrix
    /\ fs = {}
    /\ log = <<>>
    /\ report = <<>>
    /\ error = ""
    /\ firstRun = EmptyDir

(***************************************************************************)
(* The steps of a run.                                                     *)
(***************************************************************************)
NoFile == <<"", "", "">>

cam == cameras[i]

\* for ... in cameras: one camera short.
LoopDoneEarly(pos, n) == pos >= n

\* for idx, name, yaw, pitch, roll, ip, port in cameras: exhausted
LoopDone(pos, n) == pos > n

\* abs(det - 1.0) < 0.001; False on NaN
DetOk(det) == IsFin(det) /\ AbsInt(det.v - UnitScale) <= UnitScale \div 1000

\* FocalLength, Intrisic, Rotation, Translation
GeometryFields(f, K, rot) ==
    << <<"FocalLength", f>>,
       <<"Intrisic", K>>,
       <<"Rotation", MatFloat32(rot)>>,
       <<"Translation", ZeroTranslation>> >>

\* CameraName, CameraIP, which save_camera_yaml writes before int(port)
NameFields(c) == << <<"CameraName", c.name>>, <<"CameraIP", c.ip>> >>

\* What each generator writes for a camera before it converts the port;
\* GenerateCals writes the geometry alone.
FieldsBeforePort(s, c, f, rot) ==
    LET K == IntrinsicMatrix(f, HalfPixels(image_width), HalfPixels(image_height))
    IN  IF s = "camparameters"
        THEN GeometryFields(f, K, rot) \o NameFields(c)
        ELSE GeometryFields(f, K, rot)

\* int(port) raises ValueError on a str that is no number
PortRaises(s, c) == s = "camparameters" /\ c.port.py # "int"

PortField(s, c) ==
    IF s = "camparameters" THEN << <<"CameraPort", c.port.n>> >> ELSE <<>>

\* res_size, tl, tr, bl, br as int32 pairs
CropFields ==
    << <<"res_size", <<output_width, output_height>> >>,
       <<"tl", <<0, 0>> >>,
       <<"tr", <<output_width, 0>> >>,
       <<"bl", <<0, output_height>> >>,
       <<"br", <<output_width, output_height>> >> >>

\* focal_length = fov_to_focal_length(horizontal_fov, image_width)
ComputeFocal ==
    /\ pc = "start"
    /\ focal_length' = fov_to_focal_length(horizontal_fov, image_width)
    /\ log' = Append(log, Event("focal", NoFile, ""))
    /\ i' = 1
    /\ pc' = "loop"
    /\ UNCHANGED <<config, run, R, fs, files, report, error, firstRun>>

\* R = euler_to_rotation_matrix(yaw, pitch, roll)
CameraRotation ==
    /\ pc = "loop"
    /\ ~LoopDone(i, Len(cameras))
    /\ R' = euler_to_rotation_matrix(cam.yaw, cam.pitch, cam.roll)
    /\ pc' = "rotated"
    /\ UNCHANGED <<config, run, focal_length, i, fs, files, log, report, error,
                   firstRun>>

\* fs = cv2.FileStorage(f"Camparam{idx}.yaml", cv2.FILE_STORAGE_WRITE)
OpenCamFile ==
    /\ pc = "rotated"
    /\ files' = OpenWrite(files, CamFileName(cam.idx))
    /\ fs' = fs \cup {CamFileName(cam.idx)}
    /\ log' = Append(log, Event("open", CamFileName(cam.idx), ""))
    /\ pc' = "opened"
    /\ UNCHANGED <<config, run, focal_length, i, R, report, error, firstRun>>

\* the fs.write calls; int(port) raises after CameraIP has been written
WriteCamFields ==
    /\ pc = "opened"
    /\ LET name == CamFileName(cam.idx)
           head == FieldsBeforePort(script, cam, focal_length, R)
           all  == IF PortRaises(script, cam) THEN head
                   ELSE head \o PortField(script, cam)
       IN  /\ files' = WriteAll(files, name, all)
           /\ log' = log \o WriteEvents(name, all)
    /\ IF PortRaises(script, cam)
       THEN error' = "ValueError" /\ pc' = "raised"
       ELSE error' = error /\ pc' = "written"
    /\ UNCHANGED <<config, run, focal_length, i, R, fs, report, firstRun>>

\* fs.release()
ReleaseCamFile ==
    /\ pc = "written"
    /\ fs' = fs \ {CamFileName(cam.idx)}
    /\ log' = Append(log, Event("release", CamFileName(cam.idx), ""))
    /\ pc' = "saved"
    /\ UNCHANGED <<config, run, focal_length, i, R, files, report, error,
                   firstRun>>

\* The prints after the file is saved: camparameters prints the determinant
\* check, GenerateCals the matrix and the viewing direction; then the loop
\* goes on.
ReportCamera ==
    /\ pc = "saved"
    /\ report' = Append(report,
                        IF script = "camparameters"
                        THEN (IF DetOk(Det3(R)) THEN "det ok" ELSE "det ERROR")
                        ELSE "matrix")
    /\ i' = i + 1
    /\ pc' = "loop"
    /\ UNCHANGED <<config, run, focal_length, R, fs, files, log, error,
                   firstRun>>

\* corner_warppts.yaml: opened, five fields written, released
WriteCrop ==
    /\ pc = "loop"
    /\ LoopDone(i, Len(cameras))
    /\ files' = WriteAll(OpenWrite(files, CropFileName), CropFileName, CropFields)
    /\ log' = Append(Append(log, Event("open", CropFileName, ""))
                         \o WriteEvents(CropFileName, CropFields),
                     Event("release", CropFileName, ""))
    /\ pc' = "cropped"
    /\ UNCHANGED <<config, run, focal_length, i, R, fs, report, error, firstRun>>

\* the closing banner
Complete ==
    /\ pc = "cropped"
    /\ pc' = "done"
    /\ UNCHANGED <<config, run, focal_length, i, R, fs, files, log, report,
                   error, firstRun>>

\* The interpreter exits, after the banner or with the traceback of an
\* uncaught exception; a FileStorage still open is released only here.
ProcessExit ==
    /\ pc \in {"done", "raised"}
    /\ fs' = {}
    /\ firstRun' = IF run = 1 THEN files ELSE firstRun
    /\ pc' = "exited"
    /\ UNCHANGED <<config, run, focal_length, i, R, files, log, report, error>>

\* The generator is started again, same configuration, same directory.
Rerun ==
    /\ pc = "exited"
    /\ run < MaxRuns
    /\ run' = run + 1
    /\ pc' = "start"
    /\ focal_length' = NoFocal
    /\ i' = 1
    /\ R' = NoMatrix
    /\ log' = <<>>
    /\ report' = <<>>
    /\ error' = ""
    /\ UNCHANGED <<config, fs, files, firstRun>>

Next ==
    \/ ComputeFocal
    \/ CameraRotation
    \/ OpenCamFile
    \/ WriteCamFields
    \/ ReleaseCamFile
    \/ ReportCamera
    \/ WriteCrop
    \/ Complete
    \/ ProcessExit
    \/ Rerun

Spec == Init /\ [][Next]_vars

(***************************************************************************)
(* Vocabulary of the properties.                                           *)
(***************************************************************************)
IsFileOp(e)  == e.op # "focal"
IsCamOpen(e) == e.op = "open" /\ e.file # CropFileName
IsOpen(e)    == e.op = "open"

FileOps  == SelectSeq(log, IsFileOp)
CamOpens == SelectSeq(log, IsCamOpen)
Opened   == [n \in 1..Len(SelectSeq(log, IsOpen)) |-> SelectSeq(log, IsOpen)[n].file]

Keys(content) == {content[n][1] : n \in DOMAIN content}
Field(content, key) ==
    content[CHOOSE n \in DOMAIN content : content[n][1] = key][2]

IsPrefix(s, t) == Len(s) <= Len(t) /\ s = SubSeq(t, 1, Len(s))

Within(x, y, tol) == IsFin(x) /\ IsFin(y) /\ AbsInt(x.v - y.v) <= tol

Tol6        == UnitScale \div 1000000     \* 1e-6
PixelTol2   == PixelScale \div 100        \* 1e-2 pixel
Pixels(whole, hundredths) ==
    Fin(whole * PixelScale + (hundredths * PixelScale) \div 100)

DegenerateFov == {0, 180}

IndicesContiguous(cs) ==
    /\ {cs[p].idx : p \in DOMAIN cs} = 0..(Len(cs) - 1)
    /\ \A p, q \in DOMAIN cs : cs[p].idx = cs[q].idx => p = q

RotationOf(c) == euler_to_rotation_matrix(c.yaw, c.pitch, c.roll)

DefaultRig == cameras = DefaultCameras /\ horizontal_fov = 120

ValidFov == horizontal_fov \notin DegenerateFov

ValidPorts == \A p \in DOMAIN cameras : cameras[p].port.py = "int"

----------------------------------------------------------------------------
\* C1: with a field of view of 0 or 180 degrees (the camera list being the
\* default one) no file operation ever happens, the run never completes,
\* and a run that has ended has ended in a ConfigurationError.
C1_DegenerateFovRejected ==
    horizontal_fov \in DegenerateFov /\ cameras = DefaultCameras =>
        /\ FileOps = <<>>
        /\ pc \notin {"cropped", "done"}
        /\ pc \in {"raised", "exited"} => error = "ConfigurationError"

\* C2: a camera list whose indices are not exactly 0..n-1 without
\* repetition (the configuration being valid otherwise) is rejected before
\* any file is opened.
C2_BadIndicesRejected ==
    ValidFov /\ ValidPorts /\ ~IndicesContiguous(cameras) =>
        FileOps = <<>> /\ pc \notin {"cropped", "done"}

\* C3: if the rotation matrix of the camera at position j fails the
\* determinant check (the configuration being valid otherwise), no file is
\* opened for that camera or a later one and the run does not complete.
C3_DetFailureAborts ==
    ValidFov /\ ValidPorts /\ IndicesContiguous(cameras) =>
        \A j \in DOMAIN cameras :
            ~DetOk(Det3(RotationOf(cameras[j]))) =>
                Len(CamOpens) < j /\ pc \notin {"cropped", "done"}

SevenKeys ==
    {"FocalLength", "Intrisic", "Rotation", "Translation",
     "CameraName", "CameraIP", "CameraPort"}

\* C4: a camera file that has just been written and released, by either
\* generator run on the default rig, holds all seven keyed fields, the
\* metadata being the camera's name, host and port.
C4_SevenFields ==
    DefaultRig /\ pc = "saved" =>
        LET content == files[CamFileName(cam.idx)]
        IN  /\ Keys(content) = SevenKeys
            /\ Field(content, "CameraName") = cam.name
            /\ Field(content, "CameraIP") = cam.ip
            /\ Field(content, "CameraPort") = cam.port.n

\* What C5 says of the records of a completed run of the default rig, the
\* focal entries of the intrinsic matrix being `kf`.
DefaultRecords(kf) ==
    /\ [n \in 1..Len(CamOpens) |-> CamOpens[n].file]
           = <<CamFileName(0), CamFileName(1), CamFileName(2), CamFileName(3)>>
    /\ Len(SelectSeq(log, LAMBDA e : e.op = "focal")) = 1
    /\ log[1].op = "focal"
    /\ \A n \in 0..3 :
          LET c == files[CamFileName(n)]
          IN  /\ Field(c, "FocalLength") = focal_length
              /\ Field(c, "Intrisic") =
                    << <<kf, Fin(0), Fin(640 * PixelScale)>>,
                       <<Fin(0), kf, Fin(400 * PixelScale)>>,
                       <<Fin(0), Fin(0), Fin(PixelScale)>> >>
              /\ Field(c, "Translation") = << <<Fin(0)>>, <<Fin(0)>>, <<Fin(0)>> >>
    /\ \A m, n \in 0..3 :
          m # n => Field(files[CamFileName(m)], "Rotation")
                       # Field(files[CamFileName(n)], "Rotation")

\* C5 as stated: a completed run of the default rig writes Camparam0..3,
\* each with the focal length f computed once before the loop, the
\* intrinsic matrix [[f,0,640],[0,f,400],[0,0,1]] with that same f, a zero
\* translation, and rotations that differ.
C5_Original == DefaultRig /\ pc = "done" => DefaultRecords(focal_length)

\* C5, amended: as above, the focal entries of the intrinsic matrix being f
\* rounded to single precision (the matrix is stored as float32, the
\* FocalLength field as a double).
C5_DefaultRigRecords ==
    DefaultRig /\ pc = "done" => DefaultRecords(ToFloat32(focal_length))

C5_Witness ==
    /\ DefaultRig /\ pc = "done" /\ script = "camparameters"
    /\ Field(files[CamFileName(3)], "Intrisic")[1][1] # focal_length

\* C6: once save_camera_yaml has exited, by return or by exception, its
\* FileStorage is no longer open (the field of view and the indices being
\* valid).
C6_HandleReleased ==
    ValidFov /\ IndicesContiguous(cameras) /\ pc \notin {"opened", "written"} =>
        fs = {}

\* C7: when a run after the first has exited, the directory is as the
\* first run left it.
C7_Idempotent == run > 1 /\ pc = "exited" => files = firstRun

C7_Witness ==
    /\ run = 2 /\ pc = "exited" /\ error = ""
    /\ CamFileName(9) \in DOMAIN files
    /\ files[CamFileName(0)] # Stale

\* The closed form of Rz(yaw) Ry(0) Rx(pitch).
YawPitchMatrix(yaw, pitch) ==
    LET cy == CosDeg(yaw)   sy == SinDeg(yaw)
        cp == CosDeg(pitch) sp == SinDeg(pitch)
    IN  << <<cy, Neg(Mul(sy, cp)), Mul(sy, sp)>>,
           <<sy, Mul(cy, cp),      Neg(Mul(cy, sp))>>,
           <<Zero, sp,             cp>> >>

Transpose(A) == [r \in 1..3 |-> [c \in 1..3 |-> A[c][r]]]

Identity3 == << <<One, Zero, Zero>>, <<Zero, One, Zero>>, <<Zero, Zero, One>> >>

MatWithin(A, B, tol) ==
    \A r \in 1..3 : \A c \in 1..3 : Within(A[r][c], B[r][c], tol)

\* C8: for yaw 0, 90, 180, 270 with pitch 20 and roll 0 the matrix computed
\* is Rz Ry Rx in that order, R^T R = I within 1e-6 and det R = 1 within
\* 1e-6.
C8_RotationOrthonormal ==
    (/\ pc = "rotated"
     /\ cam.yaw \in {Fin(0), Fin(90), Fin(180), Fin(270)}
     /\ cam.pitch = Fin(20)
     /\ cam.roll = Fin(0))
    => /\ MatWithin(R, YawPitchMatrix(cam.yaw, cam.pitch), Tol6)
       /\ MatWithin(MatMul(Transpose(R), R), Identity3, Tol6)
       /\ Within(Det3(R), One, Tol6)

C8_Witness ==
    /\ pc = "rotated" /\ cam.yaw = Fin(270) /\ cam.pitch = Fin(20)
    /\ cam.roll = Fin(0)
    /\ R[1][2] = Fin(CosTable[20])

FocalComputed120 == pc # "start" /\ horizontal_fov = 120

\* C9 as stated: the focal length for 120 degrees and 1280 pixels is 369.55
\* within 1e-2.
C9_Original == FocalComputed120 => Within(focal_length, Pixels(369, 55), PixelTol2)

\* C9, amended: it is 1280 / (2 tan 60 deg), which is 369.50 within 1e-2.
C9_FocalLength ==
    FocalComputed120 =>
        /\ Within(focal_length, Pixels(369, 50), PixelTol2)
        /\ Within(Fin(MulMag(focal_length.v, 2 * TanHalfTable[120].v)),
                  Fin(1280 * PixelScale), PixelTol2)

C9_Witness == pc = "loop" /\ horizontal_fov = 120 /\ IsFin(focal_length)

ExpectedOpens ==
    [p \in DOMAIN cameras |-> CamFileName(cameras[p].idx)] \o <<CropFileName>>

\* Every write and release belongs to the file opened last, and a file is
\* opened only when the one before it has been released.
Bracketed ==
    \A n \in DOMAIN log :
        /\ log[n].op \in {"write", "release"} =>
              /\ n > 1
              /\ log[n-1].op \in {"open", "write"}
              /\ log[n-1].file = log[n].file
        /\ log[n].op = "open" => n > 1 /\ log[n-1].op \in {"focal", "release"}
        /\ log[n].op = "focal" => n = 1

\* C10: the focal length is computed once, first; the camera files are
\* opened, written and released one after the other in the order of the
\* list; corner_warppts is written once, after all of them, with the fixed
\* full-canvas content.
C10_StraightLine ==
    /\ pc # "start" => log # <<>> /\ log[1].op = "focal"
    /\ Bracketed
    /\ IsPrefix(Opened, ExpectedOpens)
    /\ CropFileName \in {Opened[n] : n \in DOMAIN Opened} =>
          Len(CamOpens) = Len(cameras)
    /\ pc \in {"cropped", "done"} =>
          /\ Opened = ExpectedOpens
          /\ fs = {}
          /\ files[CropFileName] =
                << <<"res_size", <<1920, 1080>> >>, <<"tl", <<0, 0>> >>,
                   <<"tr", <<1920, 0>> >>, <<"bl", <<0, 1080>> >>,
                   <<"br", <<1920, 1080>> >> >>

C10_Witness ==
    /\ pc = "done" /\ Len(cameras) = 4 /\ Len(CamOpens) = 4
    /\ log[Len(log)] = Event("release", CropFileName, "")

=============================================================================
